---- MODULE Spec2Model ----
(***************************************************************************)
(* Text preparation for LDA topic modelling: the notebook's clean(), its   *)
(* lemmaspacy(), the driver cell that fills file_names / list_documents    *)
(* and the writer cell that writes one file per list_documents entry.      *)
(*                                                                         *)
(* A text is a sequence of characters; a character is a one-character      *)
(* string, a non-ASCII character is written by its code point ("U+00E9").  *)
(***************************************************************************)
EXTENDS Integers, Sequences, FiniteSets, TLC

(***************************************************************************)
(* Characters and the character classes of Python's re module on str.      *)
(***************************************************************************)
AsciiLower == <<"a","b","c","d","e","f","g","h","i","j","k","l","m",
                "n","o","p","q","r","s","t","u","v","w","x","y","z">>

AsciiUpper == <<"A","B","C","D","E","F","G","H","I","J","K","L","M",
                "N","O","P","Q","R","S","T","U","V","W","X","Y","Z">>

Range(f) == {f[x] : x \in DOMAIN f}

\* U+00E9 is e-acute, U+00C9 its capital, U+00EF i-diaeresis,
\* U+0663 the Arabic-Indic digit three.
AsciiDigits == {"0","1","2","3","4","5","6","7","8","9"}

DigitChars == AsciiDigits \cup {"U+0663"}

AsciiAlnum == Range(AsciiLower) \cup Range(AsciiUpper) \cup AsciiDigits

WordChars == AsciiAlnum \cup {"_", "U+00E9", "U+00C9", "U+00EF", "U+0663"}

SpaceChars == {" ", "\t", "\n"}

Punctuation == {".", ",", "!", "'", "-"}

Chars == WordChars \cup SpaceChars \cup Punctuation

\* s[i], or the empty string (no character) outside the text
At(s, i) == IF i \in 1..Len(s) THEN s[i] ELSE ""

\* \b at the position before s[i]
Boundary(s, i) == (At(s, i - 1) \in WordChars) # (At(s, i) \in WordChars)

\* the length of the longest run of characters of S that starts at s[i]
RECURSIVE RunLen(_, _, _)
RunLen(s, i, S) ==
    IF i <= Len(s) /\ s[i] \in S THEN 1 + RunLen(s, i + 1, S) ELSE 0

Max(S) == CHOOSE x \in S : \A y \in S : y <= x

Min(S) == CHOOSE x \in S : \A y \in S : x <= y

\* s[i..i+Len(w)-1] = w
HasPrefixAt(s, i, w) ==
    /\ i + Len(w) - 1 <= Len(s)
    /\ \A k \in 1..Len(w) : s[i + k - 1] = w[k]

\* stopwords.words('english') of NLTK, in the order of the list
stopwords == <<
    <<"i">>, <<"m","e">>, <<"m","y">>, <<"m","y","s","e","l","f">>, <<"w","e">>,
    <<"o","u","r">>, <<"o","u","r","s">>, <<"o","u","r","s","e","l","v","e","s">>,
    <<"y","o","u">>, <<"y","o","u","'","r","e">>, <<"y","o","u","'","v","e">>,
    <<"y","o","u","'","l","l">>, <<"y","o","u","'","d">>, <<"y","o","u","r">>,
    <<"y","o","u","r","s">>, <<"y","o","u","r","s","e","l","f">>,
    <<"y","o","u","r","s","e","l","v","e","s">>, <<"h","e">>, <<"h","i","m">>, <<"h","i","s">>,
    <<"h","i","m","s","e","l","f">>, <<"s","h","e">>, <<"s","h","e","'","s">>, <<"h","e","r">>,
    <<"h","e","r","s">>, <<"h","e","r","s","e","l","f">>, <<"i","t">>, <<"i","t","'","s">>,
    <<"i","t","s">>, <<"i","t","s","e","l","f">>, <<"t","h","e","y">>, <<"t","h","e","m">>,
    <<"t","h","e","i","r">>, <<"t","h","e","i","r","s">>,
    <<"t","h","e","m","s","e","l","v","e","s">>, <<"w","h","a","t">>, <<"w","h","i","c","h">>,
    <<"w","h","o">>, <<"w","h","o","m">>, <<"t","h","i","s">>, <<"t","h","a","t">>,
    <<"t","h","a","t","'","l","l">>, <<"t","h","e","s","e">>, <<"t","h","o","s","e">>,
    <<"a","m">>, <<"i","s">>, <<"a","r","e">>, <<"w","a","s">>, <<"w","e","r","e">>,
    <<"b","e">>, <<"b","e","e","n">>, <<"b","e","i","n","g">>, <<"h","a","v","e">>,
    <<"h","a","s">>, <<"h","a","d">>, <<"h","a","v","i","n","g">>, <<"d","o">>,
    <<"d","o","e","s">>, <<"d","i","d">>, <<"d","o","i","n","g">>, <<"a">>, <<"a","n">>,
    <<"t","h","e">>, <<"a","n","d">>, <<"b","u","t">>, <<"i","f">>, <<"o","r">>,
    <<"b","e","c","a","u","s","e">>, <<"a","s">>, <<"u","n","t","i","l">>,
    <<"w","h","i","l","e">>, <<"o","f">>, <<"a","t">>, <<"b","y">>, <<"f","o","r">>,
    <<"w","i","t","h">>, <<"a","b","o","u","t">>, <<"a","g","a","i","n","s","t">>,
    <<"b","e","t","w","e","e","n">>, <<"i","n","t","o">>, <<"t","h","r","o","u","g","h">>,
    <<"d","u","r","i","n","g">>, <<"b","e","f","o","r","e">>, <<"a","f","t","e","r">>,
    <<"a","b","o","v","e">>, <<"b","e","l","o","w">>, <<"t","o">>, <<"f","r","o","m">>,
    <<"u","p">>, <<"d","o","w","n">>, <<"i","n">>, <<"o","u","t">>, <<"o","n">>,
    <<"o","f","f">>, <<"o","v","e","r">>, <<"u","n","d","e","r">>, <<"a","g","a","i","n">>,
    <<"f","u","r","t","h","e","r">>, <<"t","h","e","n">>, <<"o","n","c","e">>,
    <<"h","e","r","e">>, <<"t","h","e","r","e">>, <<"w","h","e","n">>, <<"w","h","e","r","e">>,
    <<"w","h","y">>, <<"h","o","w">>, <<"a","l","l">>, <<"a","n","y">>, <<"b","o","t","h">>,
    <<"e","a","c","h">>, <<"f","e","w">>, <<"m","o","r","e">>, <<"m","o","s","t">>,
    <<"o","t","h","e","r">>, <<"s","o","m","e">>, <<"s","u","c","h">>, <<"n","o">>,
    <<"n","o","r">>, <<"n","o","t">>, <<"o","n","l","y">>, <<"o","w","n">>, <<"s","a","m","e">>,
    <<"s","o">>, <<"t","h","a","n">>, <<"t","o","o">>, <<"v","e","r","y">>, <<"s">>, <<"t">>,
    <<"c","a","n">>, <<"w","i","l","l">>, <<"j","u","s","t">>, <<"d","o","n">>,
    <<"d","o","n","'","t">>, <<"s","h","o","u","l","d">>,
    <<"s","h","o","u","l","d","'","v","e">>, <<"n","o","w">>, <<"d">>, <<"l","l">>, <<"m">>,
    <<"o">>, <<"r","e">>, <<"v","e">>, <<"y">>, <<"a","i","n">>, <<"a","r","e","n">>,
    <<"a","r","e","n","'","t">>, <<"c","o","u","l","d","n">>,
    <<"c","o","u","l","d","n","'","t">>, <<"d","i","d","n">>, <<"d","i","d","n","'","t">>,
    <<"d","o","e","s","n">>, <<"d","o","e","s","n","'","t">>, <<"h","a","d","n">>,
    <<"h","a","d","n","'","t">>, <<"h","a","s","n">>, <<"h","a","s","n","'","t">>,
    <<"h","a","v","e","n">>, <<"h","a","v","e","n","'","t">>, <<"i","s","n">>,
    <<"i","s","n","'","t">>, <<"m","a">>, <<"m","i","g","h","t","n">>,
    <<"m","i","g","h","t","n","'","t">>, <<"m","u","s","t","n">>,
    <<"m","u","s","t","n","'","t">>, <<"n","e","e","d","n">>, <<"n","e","e","d","n","'","t">>,
    <<"s","h","a","n">>, <<"s","h","a","n","'","t">>, <<"s","h","o","u","l","d","n">>,
    <<"s","h","o","u","l","d","n","'","t">>, <<"w","a","s","n">>, <<"w","a","s","n","'","t">>,
    <<"w","e","r","e","n">>, <<"w","e","r","e","n","'","t">>, <<"w","o","n">>,
    <<"w","o","n","'","t">>, <<"w","o","u","l","d","n">>, <<"w","o","u","l","d","n","'","t">>
    >>

(***************************************************************************)
(* The patterns of clean(): the length of the match of the pattern that    *)
(* starts at s[i], 0 when the pattern does not match there.                *)
(***************************************************************************)
\* (\W| +)
MatchNonWord(s, i) ==
    IF s[i] \notin WordChars THEN 1 ELSE RunLen(s, i, {" "})

\* \s+
MatchWhitespace(s, i) == RunLen(s, i, SpaceChars)

\* \b\d+\b : greedy \d+, backtracking to the longest run a \b follows
MatchNumber(s, i) ==
    LET n == RunLen(s, i, DigitChars)
        ends == {k \in 1..n : Boundary(s, i + k)}
    IN  IF Boundary(s, i) /\ ends # {} THEN Max(ends) ELSE 0

\* the bug of leaving out the second pass over digits: only \b\d+\b
MatchDigits_StandaloneOnly(s, i) == MatchNumber(s, i)

\* \d+
MatchDigits(s, i) == RunLen(s, i, DigitChars)

\* [^a-zA-Z0-9]+
MatchSpecial(s, i) == RunLen(s, i, Chars \ AsciiAlnum)

\* the bug of leaving out the closing \b: \b\w{1,2}
MatchShortWord_NoEnd(s, i) ==
    IF Boundary(s, i) THEN Min({2, RunLen(s, i, WordChars)}) ELSE 0

\* \b\w{1,2}\b
MatchShortWord(s, i) ==
    LET n == RunLen(s, i, WordChars)
        ends == {k \in 1..2 : k <= n /\ Boundary(s, i + k)}
    IN  IF Boundary(s, i) /\ ends # {} THEN Max(ends) ELSE 0

\* the bug of a matcher that does not backtrack into the alternation: the
\* first alternative that matches the text must be followed by \b
MatchStopword_NoBacktrack(s, i) ==
    LET prefixes == {j \in DOMAIN stopwords : HasPrefixAt(s, i, stopwords[j])}
    IN  IF /\ Boundary(s, i)
           /\ prefixes # {}
           /\ Boundary(s, i + Len(stopwords[Min(prefixes)]))
        THEN LET w == Len(stopwords[Min(prefixes)])
             IN  w + RunLen(s, i + w, SpaceChars)
        ELSE 0

\* \b(w1|w2|...)\b\s* : the first alternative of the list that matches
\* between two \b, and the whitespace after it
MatchStopword(s, i) ==
    LET hits == {j \in DOMAIN stopwords :
                    /\ HasPrefixAt(s, i, stopwords[j])
                    /\ Boundary(s, i + Len(stopwords[j]))}
    IN  IF Boundary(s, i) /\ hits # {}
        THEN LET w == Len(stopwords[Min(hits)])
             IN  w + RunLen(s, i + w, SpaceChars)
        ELSE 0

\* " +"
MatchSpaces(s, i) == RunLen(s, i, {" "})

MatchLen(pattern, s, i) ==
    CASE pattern = "nonword"    -> MatchNonWord(s, i)
      [] pattern = "whitespace" -> MatchWhitespace(s, i)
      [] pattern = "number"     -> MatchNumber(s, i)
      [] pattern = "digits"     -> MatchDigits(s, i)
      [] pattern = "special"    -> MatchSpecial(s, i)
      [] pattern = "shortword"  -> MatchShortWord(s, i)
      [] pattern = "stopword"   -> MatchStopword(s, i)
      [] pattern = "spaces"     -> MatchSpaces(s, i)

\* re.sub(pattern, repl, s) from position i on: the leftmost matches, none
\* overlapping, each replaced by repl
RECURSIVE ReSubFrom(_, _, _, _)
ReSubFrom(pattern, repl, s, i) ==
    IF i > Len(s) THEN <<>>
    ELSE LET n == MatchLen(pattern, s, i)
         IN  IF n > 0 THEN repl \o ReSubFrom(pattern, repl, s, i + n)
                      ELSE <<s[i]>> \o ReSubFrom(pattern, repl, s, i + 1)

ReSub(pattern, repl, s) == ReSubFrom(pattern, repl, s, 1)

\* str.replace(old, new) for one-character old and new
Replace(s, old, new) == [k \in 1..Len(s) |-> IF s[k] = old THEN new ELSE s[k]]

\* str.strip()
Strip(s) ==
    LET keep == {k \in 1..Len(s) : s[k] \notin SpaceChars}
    IN  IF keep = {} THEN <<>> ELSE SubSeq(s, Min(keep), Max(keep))

\* str.lower() of one character
LowerChar(c) ==
    IF \E k \in DOMAIN AsciiUpper : AsciiUpper[k] = c
    THEN AsciiLower[CHOOSE k \in DOMAIN AsciiUpper : AsciiUpper[k] = c]
    ELSE IF c = "U+00C9" THEN "U+00E9" ELSE c

Lower(s) == [k \in 1..Len(s) |-> LowerChar(s[k])]

(***************************************************************************)
(* clean(mystr), one operator per statement.                               *)
(***************************************************************************)
CleanNonWord(s) == ReSub("nonword", <<" ">>, s)

CleanWhitespace(s) == ReSub("whitespace", <<" ">>, s)

CleanNumbers(s) == ReSub("number", <<>>, s)

CleanDigits(s) == ReSub("digits", <<>>, s)

CleanAccent(s) == Replace(s, "U+00E9", "e")

CleanSpecial(s) == ReSub("special", <<" ">>, s)

CleanShortWords(s) == ReSub("shortword", <<>>, s)

CleanStopwords(s) == ReSub("stopword", <<>>, s)

\* the bug of leaving out strip()
CleanStrip_None(s) == s

CleanStrip(s) == Strip(s)

CleanSpaces(s) == ReSub("spaces", <<" ">>, s)

\* the statement at line `line` of clean() applied to s (lines 1..10 are
\* the ten assignments of the function body)
CleanLine(line, s) ==
    CASE line = 1  -> CleanNonWord(s)
      [] line = 2  -> CleanWhitespace(s)
      [] line = 3  -> CleanNumbers(s)
      [] line = 4  -> CleanDigits(s)
      [] line = 5  -> CleanAccent(s)
      [] line = 6  -> CleanSpecial(s)
      [] line = 7  -> CleanShortWords(s)
      [] line = 8  -> CleanStopwords(s)
      [] line = 9  -> CleanStrip(s)
      [] line = 10 -> CleanSpaces(s)

RECURSIVE CleanFrom(_, _)
CleanFrom(line, s) ==
    IF line > 10 THEN s ELSE CleanFrom(line + 1, CleanLine(line, s))

clean(mystr) == CleanFrom(1, mystr)

(***************************************************************************)
(* The spaCy pipeline behind nlp(text): the length check of Language       *)
(* .__call__, and stand-ins for the pretrained model's tokens, lemmas and  *)
(* noun chunks on the vocabulary of the modelled documents.                *)
(***************************************************************************)
\* nlp.max_length of the global model, and of the model lemmaspacy() loads
nlp_max_length == 6000000

lemmaspacy_max_length == 60000000

\* one character of a modelled text stands for LenScale characters of a
\* document where a length is compared with max_length
LenScale == 2000000

PyLen(text) == Len(text) * LenScale

\* en_core_web_sm.load() followed by the assignment of max_length
LoadModel(instance, max_length) ==
    [instance |-> instance, max_length |-> max_length]

NoModel == [instance |-> 0, max_length |-> 0]

\* the bug of truncating an overlong text instead of raising
Nlp_Truncate(model, text) ==
    [raised |-> "none",
     doc |-> SubSeq(text, 1, Min({Len(text), model.max_length \div LenScale}))]

\* nlp(text): ValueError when the text is longer than max_length, else the Doc
Nlp(model, text) ==
    IF PyLen(text) > model.max_length
    THEN [raised |-> "ValueError", doc |-> <<>>]
    ELSE [raised |-> "none", doc |-> text]

\* the tokens of a text: its maximal runs of characters other than whitespace
RECURSIVE TokensFrom(_, _)
TokensFrom(s, i) ==
    IF i > Len(s) THEN <<>>
    ELSE LET n == RunLen(s, i, Chars \ SpaceChars)
         IN  IF n = 0 THEN TokensFrom(s, i + 1)
             ELSE <<SubSeq(s, i, i + n - 1)>> \o TokensFrom(s, i + n)

Tokens(s) == TokensFrom(s, 1)

\* " ".join(words)
RECURSIVE Join(_)
Join(words) ==
    IF words = <<>> THEN <<>>
    ELSE IF Len(words) = 1 THEN words[1]
    ELSE words[1] \o <<" ">> \o Join(Tail(words))

Oxen == <<"o","x","e","n">>

Ox == <<"o","x">>

\* token.lemma_
LemmaOf(token) ==
    IF token = Oxen THEN Ox ELSE token

\* the tokens the model tags as the head of a noun chunk
IsNoun(token) == token \in {Ox, Oxen}

\* " ".join([token.lemma_ for token in doc])
JoinLemmas(doc) ==
    LET toks == Tokens(doc)
    IN  Join([k \in 1..Len(toks) |-> LemmaOf(toks[k])])

\* the loop over doc.noun_chunks: list_element + " " + chunk.text per chunk
RECURSIVE ConcatChunks(_, _)
ConcatChunks(list_element, toks) ==
    IF toks = <<>> THEN list_element
    ELSE ConcatChunks(IF IsNoun(toks[1])
                      THEN list_element \o <<" ">> \o toks[1]
                      ELSE list_element,
                      Tail(toks))

NounChunkText(doc) == ConcatChunks(<<>>, Tokens(doc))

(***************************************************************************)
(* The input directory: NumFiles files, each unreadable, not UTF-8, or a   *)
(* text of the set Docs.                                                   *)
(***************************************************************************)
NumFiles == 2

MaxRuns == 2

FileNamePool == <<"doc1.txt", "doc2.txt", "doc3.txt", "doc4.txt">>

Files == {FileNamePool[k] : k \in 1..NumFiles}

RECURSIVE Repeat(_, _)
Repeat(s, n) == IF n = 0 THEN <<>> ELSE s \o Repeat(s, n - 1)

EmptyText == <<>>

NumbersText == <<"1","2","3"," ","!","!","!"," ","4","5","6">>

OxenText == <<"T","h","e"," ","O","x","e","n","!">>

UnderscoreText == <<"1","_","1"," ","-">>

\* fits the model lemmaspacy() loads, too long for the global nlp
LongText == <<"O","x","e","n"," ","o","x","e","n",".">>

\* too long for the model lemmaspacy() loads
HugeText == Repeat(<<"o","x","e","n"," ">>, 7)

Unreadable == [kind |-> "unreadable", text |-> <<>>]

NotUtf8 == [kind |-> "not_utf8", text |-> <<>>]

TextFile(t) == [kind |-> "text", text |-> t]

DocList == <<Unreadable, NotUtf8, TextFile(EmptyText), TextFile(NumbersText),
             TextFile(UnderscoreText), TextFile(OxenText), TextFile(LongText),
             TextFile(HugeText)>>

Docs == Range(DocList)

\* the directories: every choice of NumFiles documents. File names carry no
\* meaning and os.listdir returns them in any order, so the documents are
\* given to the names of the pool in the order of DocList.
Directories ==
    {[f \in Files |-> DocList[ix[CHOOSE k \in 1..NumFiles : FileNamePool[k] = f]]] :
        ix \in {jx \in [1..NumFiles -> DOMAIN DocList] :
                  \A a, b \in 1..NumFiles : a <= b => jx[a] <= jx[b]}}

Perms(S) ==
    {s \in [1..Cardinality(S) -> S] : \A a, b \in DOMAIN s : s[a] = s[b] => a = b}

(***************************************************************************)
(* State.                                                                  *)
(***************************************************************************)
VARIABLES
    mystr,           \* clean(): the argument
    my_new_str,      \* clean(): the local my_new_str
    line,            \* clean(): the next statement, 1..10; 11 once returned; 0 not called
    dir,             \* data/processed/text_files: file name -> document
    expected,        \* per input file: what one run of the pipeline makes of it
    out,             \* data/interim/Noun_text_files: file name -> content
    pc,              \* the notebook statement that runs next
    runs,            \* how many times the notebook was run
    prev,            \* how the run before this one ended
    nlp,             \* the global model
    lemma_nlp,       \* the local nlp of lemmaspacy()
    loads,           \* calls of en_core_web_sm.load() in this run
    order,           \* os.listdir(text_files_dir)
    pos,             \* index in order of the file the for loop is at
    file_names,
    list_documents,
    input_str,
    list_element,
    wi,              \* the writer loop's i, 0 before the writer cell runs
    error            \* the exception that ended the driver cell, "none" if none

cleanVars == <<mystr, my_new_str, line>>

kernelVars == <<nlp, lemma_nlp, loads, order, pos, file_names, list_documents,
                input_str, list_element, wi, error>>

driverVars == <<dir, expected, out, pc, runs, prev, nlp, lemma_nlp, loads, order, pos,
                file_names, list_documents, input_str, list_element, wi, error>>

vars == <<mystr, my_new_str, line, dir, expected, out, pc, runs, prev, nlp, lemma_nlp,
          loads, order, pos, file_names, list_documents, input_str,
          list_element, wi, error>>

\* a kernel in which no cell has run
FreshKernel ==
    /\ nlp = NoModel
    /\ lemma_nlp = NoModel
    /\ loads = 0
    /\ order = <<>>
    /\ pos = 0
    /\ file_names = <<>>
    /\ list_documents = <<>>
    /\ input_str = <<>>
    /\ list_element = <<>>
    /\ wi = 0
    /\ error = "none"

EmptyDir == [f \in {} |-> <<>>]

(***************************************************************************)
(* clean() statement by statement, on inputs drawn from bounded sets.      *)
(***************************************************************************)
MaxLen == 4

MaxWords == 2

Alphabet == {"t", "h", "e", "T", "U+00E9", "1", " ", ".", "_"}

Strings == UNION {[1..n -> Alphabet] : n \in 0..MaxLen}

StopSample == {<<"t","h","e">>, <<"d","o","n","'","t">>, <<"i","t","'","s">>,
               <<"i","s","n","'","t">>, <<"y","o","u","'","r","e">>,
               <<"s","h","o","u","l","d","'","v","e">>,
               <<"m","y","s","e","l","f">>, <<"i">>}

Separators == {<<" ">>, <<"\n">>, <<" ", " ">>}

RECURSIVE JoinWith(_, _)
JoinWith(words, seps) ==
    IF Len(words) = 1 THEN words[1]
    ELSE words[1] \o seps[1] \o JoinWith(Tail(words), Tail(seps))

\* texts made of stopwords only: every stopword alone, and the sequences of
\* up to MaxWords words of StopSample with whitespace between them
StopTexts ==
    Range(stopwords) \cup
    UNION {{JoinWith(ws, sp) : ws \in [1..n -> StopSample],
                               sp \in [1..n -> Separators]} : n \in 1..MaxWords}

CleanInputs == Strings \cup StopTexts

InitClean ==
    /\ mystr \in CleanInputs
    /\ my_new_str = <<>>
    /\ line = 1
    /\ dir = EmptyDir
    /\ expected = EmptyDir
    /\ out = EmptyDir
    /\ pc = "off"
    /\ runs = 0
    /\ prev = "none"
    /\ FreshKernel

SubNonWord ==
    /\ line = 1
    /\ my_new_str' = CleanNonWord(mystr)
    /\ line' = 2
    /\ UNCHANGED <<mystr, driverVars>>

SubWhitespace ==
    /\ line = 2
    /\ my_new_str' = CleanWhitespace(my_new_str)
    /\ line' = 3
    /\ UNCHANGED <<mystr, driverVars>>

SubNumbers ==
    /\ line = 3
    /\ my_new_str' = CleanNumbers(my_new_str)
    /\ line' = 4
    /\ UNCHANGED <<mystr, driverVars>>

SubDigits ==
    /\ line = 4
    /\ my_new_str' = CleanDigits(my_new_str)
    /\ line' = 5
    /\ UNCHANGED <<mystr, driverVars>>

ReplaceAccent ==
    /\ line = 5
    /\ my_new_str' = CleanAccent(my_new_str)
    /\ line' = 6
    /\ UNCHANGED <<mystr, driverVars>>

SubSpecial ==
    /\ line = 6
    /\ my_new_str' = CleanSpecial(my_new_str)
    /\ line' = 7
    /\ UNCHANGED <<mystr, driverVars>>

SubShortWords ==
    /\ line = 7
    /\ my_new_str' = CleanShortWords(my_new_str)
    /\ line' = 8
    /\ UNCHANGED <<mystr, driverVars>>

SubStopwords ==
    /\ line = 8
    /\ my_new_str' = CleanStopwords(my_new_str)
    /\ line' = 9
    /\ UNCHANGED <<mystr, driverVars>>

StripEnds ==
    /\ line = 9
    /\ my_new_str' = CleanStrip(my_new_str)
    /\ line' = 10
    /\ UNCHANGED <<mystr, driverVars>>

SubSpaces ==
    /\ line = 10
    /\ my_new_str' = CleanSpaces(my_new_str)
    /\ line' = 11
    /\ UNCHANGED <<mystr, driverVars>>

NextClean ==
    \/ SubNonWord
    \/ SubWhitespace
    \/ SubNumbers
    \/ SubDigits
    \/ ReplaceAccent
    \/ SubSpecial
    \/ SubShortWords
    \/ SubStopwords
    \/ StripEnds
    \/ SubSpaces

SpecClean == InitClean /\ [][NextClean]_vars

(***************************************************************************)
(* The notebook run on a directory: the import cell, the driver cell, the  *)
(* writer cell, statement by statement.                                    *)
(***************************************************************************)
\* what the pipeline makes of a document: whether a stage raises, and the
\* text the noun extraction ends with
Outcome(d) ==
    LET cleaned == clean(Lower(d.text))
        lemmatized == JoinLemmas(cleaned)
    IN  [fails |-> \/ d.kind # "text"
                   \/ Len(cleaned) * LenScale > lemmaspacy_max_length
                   \/ Len(lemmatized) * LenScale > nlp_max_length,
         result |-> NounChunkText(lemmatized)]

Init ==
    /\ mystr = <<>>
    /\ my_new_str = <<>>
    /\ line = 0
    /\ dir \in Directories
    /\ expected = [f \in DOMAIN dir |-> Outcome(dir[f])]
    /\ out = EmptyDir
    /\ pc = "imports"
    /\ runs = 1
    /\ prev = "none"
    /\ FreshKernel

\* an exception leaves the driver cell; the kernel keeps its variables
Raise(exc) ==
    /\ pc' = "aborted"
    /\ error' = exc

\* nlp = en_core_web_sm.load(); nlp.max_length = 6000000
Imports ==
    /\ pc = "imports"
    /\ nlp' = LoadModel(loads + 1, nlp_max_length)
    /\ loads' = loads + 1
    /\ pc' = "driver"
    /\ UNCHANGED <<cleanVars, dir, expected, out, runs, prev, lemma_nlp, order, pos,
                   file_names, list_documents, input_str, list_element, wi, error>>

\* the bug of not resetting file_names at the top of the driver cell
DriverStart_NoReset ==
    /\ pc = "driver"
    /\ list_documents' = <<>>
    /\ order' \in Perms(DOMAIN dir)
    /\ pos' = 1
    /\ wi' = 0
    /\ error' = "none"
    /\ pc' = "for"
    /\ UNCHANGED <<cleanVars, dir, expected, out, runs, prev, nlp, lemma_nlp, loads,
                   file_names, input_str, list_element>>

\* list_documents = []; file_names = []; the for statement evaluates
\* os.listdir(text_files_dir), whose order is arbitrary
DriverStart ==
    /\ pc = "driver"
    /\ list_documents' = <<>>
    /\ file_names' = <<>>
    /\ order' \in Perms(DOMAIN dir)
    /\ pos' = 1
    /\ wi' = 0
    /\ error' = "none"
    /\ pc' = "for"
    /\ UNCHANGED <<cleanVars, dir, expected, out, runs, prev, nlp, lemma_nlp, loads,
                   input_str, list_element>>

\* for file in ...: the next file, or the end of the cell and the writer
\* cell's for i in range(len(list_documents))
ForNext ==
    /\ pc = "for"
    /\ IF pos <= Len(order)
       THEN pc' = "open" /\ wi' = wi
       ELSE pc' = "writer_for" /\ wi' = 1
    /\ UNCHANGED <<cleanVars, dir, expected, out, runs, prev, nlp, lemma_nlp, loads, order,
                   pos, file_names, list_documents, input_str, list_element, error>>

\* with codecs.open(... + file, 'r', encoding='utf-8') as corpus
Open ==
    /\ pc = "open"
    /\ IF dir[order[pos]].kind = "unreadable"
       THEN Raise("IOError")
       ELSE pc' = "append_name" /\ error' = error
    /\ UNCHANGED <<cleanVars, dir, expected, out, runs, prev, nlp, lemma_nlp, loads, order,
                   pos, file_names, list_documents, input_str, list_element, wi>>

\* file_names.append(file)
AppendName ==
    /\ pc = "append_name"
    /\ file_names' = Append(file_names, order[pos])
    /\ pc' = "read"
    /\ UNCHANGED <<cleanVars, dir, expected, out, runs, prev, nlp, lemma_nlp, loads, order,
                   pos, list_documents, input_str, list_element, wi, error>>

\* input_str = corpus.read().lower()
Read ==
    /\ pc = "read"
    /\ IF dir[order[pos]].kind = "not_utf8"
       THEN Raise("UnicodeDecodeError") /\ input_str' = input_str
       ELSE /\ input_str' = Lower(dir[order[pos]].text)
            /\ pc' = "clean"
            /\ error' = error
    /\ UNCHANGED <<cleanVars, dir, expected, out, runs, prev, nlp, lemma_nlp, loads, order,
                   pos, file_names, list_documents, list_element, wi>>

\* input_str = clean(input_str)
Clean ==
    /\ pc = "clean"
    /\ input_str' = clean(input_str)
    /\ pc' = "lemma"
    /\ UNCHANGED <<cleanVars, dir, expected, out, runs, prev, nlp, lemma_nlp, loads, order,
                   pos, file_names, list_documents, list_element, wi, error>>

\* input_str = lemmaspacy(input_str): loads a model of its own, sets its
\* max_length, parses, joins the lemmas
Lemmatize ==
    /\ pc = "lemma"
    /\ lemma_nlp' = LoadModel(loads + 1, lemmaspacy_max_length)
    /\ loads' = loads + 1
    /\ LET r == Nlp(lemma_nlp', input_str)
       IN  IF r.raised # "none"
           THEN Raise(r.raised) /\ input_str' = input_str
           ELSE /\ input_str' = JoinLemmas(r.doc)
                /\ pc' = "parse"
                /\ error' = error
    /\ UNCHANGED <<cleanVars, dir, expected, out, runs, prev, nlp, order, pos, file_names,
                   list_documents, list_element, wi>>

\* list_element = ""; input_str = nlp(input_str)
Parse ==
    /\ pc = "parse"
    /\ list_element' = <<>>
    /\ LET r == Nlp(nlp, input_str)
       IN  IF r.raised # "none"
           THEN Raise(r.raised) /\ input_str' = input_str
           ELSE /\ input_str' = r.doc
                /\ pc' = "chunks"
                /\ error' = error
    /\ UNCHANGED <<cleanVars, dir, expected, out, runs, prev, nlp, lemma_nlp, loads, order,
                   pos, file_names, list_documents, wi>>

\* for chunk in input_str.noun_chunks: list_element = list_element + " " + chunk.text
Chunks ==
    /\ pc = "chunks"
    /\ list_element' = ConcatChunks(list_element, Tokens(input_str))
    /\ pc' = "append_doc"
    /\ UNCHANGED <<cleanVars, dir, expected, out, runs, prev, nlp, lemma_nlp, loads, order,
                   pos, file_names, list_documents, input_str, wi, error>>

\* the bug of appending only a non-empty result
AppendDoc_SkipEmpty ==
    /\ pc = "append_doc"
    /\ list_documents' = IF list_element = <<>> THEN list_documents
                         ELSE Append(list_documents, list_element)
    /\ pos' = pos + 1
    /\ pc' = "for"
    /\ UNCHANGED <<cleanVars, dir, expected, out, runs, prev, nlp, lemma_nlp, loads, order,
                   file_names, input_str, list_element, wi, error>>

\* list_documents.append(list_element), and the end of the loop body
AppendDoc ==
    /\ pc = "append_doc"
    /\ list_documents' = Append(list_documents, list_element)
    /\ pos' = pos + 1
    /\ pc' = "for"
    /\ UNCHANGED <<cleanVars, dir, expected, out, runs, prev, nlp, lemma_nlp, loads, order,
                   file_names, input_str, list_element, wi, error>>

\* for i in range(len(list_documents))
WriterFor ==
    /\ pc = "writer_for"
    /\ pc' = IF wi <= Len(list_documents) THEN "w_open" ELSE "done"
    /\ UNCHANGED <<cleanVars, dir, expected, out, runs, prev, kernelVars>>

\* a file of the output directory after f.write(text) at its end
Written(name, text) ==
    [f \in DOMAIN out \cup {name} |->
        IF f = name THEN (IF name \in DOMAIN out THEN out[name] ELSE <<>>) \o text
        ELSE out[f]]

\* the bug of opening the output file in mode 'a'
WOpen_Append ==
    /\ pc = "w_open"
    /\ out' = Written(file_names[wi], <<>>)
    /\ pc' = "w_write"
    /\ UNCHANGED <<cleanVars, dir, expected, runs, prev, kernelVars>>

\* with open(... + file_names[i], 'w') as f: creates the file or truncates it
WOpen ==
    /\ pc = "w_open"
    /\ out' = [f \in DOMAIN out \cup {file_names[wi]} |->
                  IF f = file_names[wi] THEN <<>> ELSE out[f]]
    /\ pc' = "w_write"
    /\ UNCHANGED <<cleanVars, dir, expected, runs, prev, kernelVars>>

\* the bug of writing the driver loop's last list_element to every file
WWrite_LastElement ==
    /\ pc = "w_write"
    /\ out' = Written(file_names[wi], list_element)
    /\ wi' = wi + 1
    /\ pc' = "writer_for"
    /\ UNCHANGED <<cleanVars, dir, expected, runs, prev, nlp, lemma_nlp, loads, order, pos,
                   file_names, list_documents, input_str, list_element, error>>

\* f.write(list_documents[i]), and the end of the loop body
WWrite ==
    /\ pc = "w_write"
    /\ out' = Written(file_names[wi], list_documents[wi])
    /\ wi' = wi + 1
    /\ pc' = "writer_for"
    /\ UNCHANGED <<cleanVars, dir, expected, runs, prev, nlp, lemma_nlp, loads, order, pos,
                   file_names, list_documents, input_str, list_element, error>>

\* after the driver cell raised, the writer cell is run by hand
WriterAfterAbort ==
    /\ pc = "aborted"
    /\ wi = 0
    /\ wi' = 1
    /\ pc' = "writer_for"
    /\ UNCHANGED <<cleanVars, dir, expected, out, runs, prev, nlp, lemma_nlp, loads, order,
                   pos, file_names, list_documents, input_str, list_element, error>>

Running == pc \notin {"off", "done", "aborted", "crashed"}

\* the kernel dies in the middle of a run: its variables are lost, the files
\* written so far stay
Crash ==
    /\ Running
    /\ pc' = "crashed"
    /\ nlp' = NoModel
    /\ lemma_nlp' = NoModel
    /\ loads' = 0
    /\ order' = <<>>
    /\ pos' = 0
    /\ file_names' = <<>>
    /\ list_documents' = <<>>
    /\ input_str' = <<>>
    /\ list_element' = <<>>
    /\ wi' = 0
    /\ error' = "none"
    /\ UNCHANGED <<cleanVars, dir, expected, out, runs, prev>>

\* the notebook is run again from its first cell on the unchanged input
\* directory, in the same kernel unless it crashed
Rerun ==
    /\ pc \in {"done", "aborted", "crashed"}
    /\ runs < MaxRuns
    /\ runs' = runs + 1
    /\ prev' = IF pc = "done" /\ error # "none" THEN "aborted" ELSE pc
    /\ loads' = 0
    /\ pc' = "imports"
    /\ UNCHANGED <<cleanVars, dir, expected, out, nlp, lemma_nlp, order, pos, file_names,
                   list_documents, input_str, list_element, wi, error>>

Next ==
    \/ Imports
    \/ DriverStart
    \/ ForNext
    \/ Open
    \/ AppendName
    \/ Read
    \/ Clean
    \/ Lemmatize
    \/ Parse
    \/ Chunks
    \/ AppendDoc
    \/ WriterFor
    \/ WOpen
    \/ WWrite
    \/ WriterAfterAbort
    \/ Crash
    \/ Rerun

Spec == Init /\ [][Next]_vars

(***************************************************************************)
(* The properties.                                                         *)
(***************************************************************************)
DriverStages == {"for", "open", "append_name", "read", "clean", "lemma",
                 "parse", "chunks", "append_doc"}

DocStages == DriverStages \ {"for"}

WriterStages == {"writer_for", "w_open", "w_write"}

NoUpper(s) == \A k \in 1..Len(s) : s[k] \notin Range(AsciiUpper)

\* no maximal run of characters other than the space is shorter than 3
NoShortToken(s) ==
    \A k \in 1..Len(s) :
        (s[k] # " " /\ At(s, k - 1) \in {"", " "})
            => RunLen(s, k, Chars \ {" "}) >= 3

CleanOutputShape(s) ==
    /\ \A k \in 1..Len(s) : s[k] \notin DigitChars
    /\ \A k \in 1..Len(s) : s[k] \in Range(AsciiLower) \cup {" "}
    /\ NoShortToken(s)

\* C1 as stated: for every input string, the output of clean has no digit,
\* only a-z and the space, and no token shorter than 3 characters.
C1_EveryInput == line = 11 => CleanOutputShape(my_new_str)

\* C1, amended: for every input string without an uppercase ASCII letter (the
\* driver passes lowercased text), the output of clean has no digit, only a-z
\* and the space, and no space-separated token shorter than 3 characters.
C1_LowercasedInput ==
    (line = 11 /\ NoUpper(mystr)) => CleanOutputShape(my_new_str)

C1_Witness ==
    /\ line = 11
    /\ NoUpper(mystr)
    /\ \E k \in 1..Len(mystr) : mystr[k] \in DigitChars
    /\ my_new_str # <<>>

\* C2: clean is idempotent, clean(clean(s)) = clean(s), and no statement of
\* clean changes the output of clean on a second pass.
C2_Idempotent ==
    line = 11 =>
        /\ clean(my_new_str) = my_new_str
        /\ \A k \in 1..10 : CleanLine(k, my_new_str) = my_new_str

C2_Witness ==
    /\ line = 11
    /\ my_new_str # <<>>
    /\ my_new_str # mystr

\* C9: clean returns the empty string for every text made of stopwords only,
\* separated by whitespace, the stopwords with an apostrophe included.
C9_StopwordsOnly == (line = 11 /\ mystr \in StopTexts) => my_new_str = <<>>

C9_Witness ==
    /\ line = 11
    /\ mystr \in StopTexts
    /\ "'" \in Range(mystr)
    /\ \E k \in 1..Len(mystr) : mystr[k] \in SpaceChars
    /\ my_new_str = <<>>

\* C3: after a run that completes without error the output directory holds
\* one file per input file, under the same name, with the pipeline's result
\* for the input file of that name.
C3_OneOutputPerInput ==
    (pc = "done" /\ error = "none") =>
        /\ DOMAIN out = DOMAIN dir
        /\ \A f \in DOMAIN dir : out[f] = expected[f].result

C3_Witness ==
    /\ pc = "done"
    /\ error = "none"
    /\ \E f, g \in DOMAIN out : out[f] # out[g]

\* C4 as stated: when a stage of a document begins, every earlier document
\* has been through all its stages, the Writer included.
C4_WriterBeforeNextDocument ==
    pc \in DocStages => \A k \in 1..Len(list_documents) : k < wi

\* C4, amended: the documents go one after another through Loader, Cleaner,
\* Lemmatizer and Noun Extractor, each through all four before the next
\* begins; the Writer is a loop of its own that starts when the driver loop
\* has ended and writes no file before that.
C4_StagesThenWriter ==
    /\ pc \in DriverStages =>
        /\ wi = 0
        /\ Len(list_documents) = pos - 1
        /\ Len(file_names) \in {pos - 1, pos}
        /\ \A k \in 1..Len(file_names) : file_names[k] = order[k]
    /\ pc \in WriterStages =>
        /\ wi >= 1
        /\ Len(list_documents) = pos - 1
        /\ error = "none" => pos = Len(order) + 1

C4_Witness ==
    /\ pc = "w_open"
    /\ wi = 2
    /\ error = "none"

\* C5: a document whose processing fails (unreadable, not UTF-8, longer than
\* max_length at the Lemmatizer or the Noun Extractor) ends the driver at
\* that document, leaves no result in list_documents and gets no output file.
C5_NoOutputForFailed ==
    /\ \A f \in DOMAIN out : ~expected[f].fails
    /\ \A k \in 1..Len(list_documents) : ~expected[file_names[k]].fails
    /\ pc = "aborted" =>
        /\ expected[order[pos]].fails
        /\ Len(list_documents) = pos - 1

C5_Witness ==
    /\ pc = "done"
    /\ error = "ValueError"
    /\ out # EmptyDir
    /\ Len(file_names) = Len(list_documents) + 1

\* C6 as stated: the model is loaded once per run and the one instance,
\* with its one max_length, serves the Lemmatizer and the Noun Extractor.
C6_ModelLoadedOnce ==
    /\ loads <= 1
    /\ lemma_nlp # NoModel => lemma_nlp = nlp

\* C7: every output file is overwritten, never appended to: in a run after
\* a complete or a crashed run on the unchanged input directory every output
\* file ends with the content one complete run gives it.
C7_RerunOverwrites ==
    /\ \A f \in DOMAIN out : out[f] \in {<<>>, expected[f].result}
    /\ (pc = "done" /\ error = "none" /\ runs >= 2) =>
          \A f \in DOMAIN dir : f \in DOMAIN out /\ out[f] = expected[f].result

C7_Witness ==
    /\ pc = "done"
    /\ error = "none"
    /\ runs >= 2
    /\ prev = "crashed"
    /\ \E f \in DOMAIN out : out[f] # <<>>

OnlyDigitsAndPunctuation(d) ==
    /\ d.kind = "text"
    /\ \A k \in 1..Len(d.text) :
          d.text[k] \in DigitChars \cup Punctuation \cup SpaceChars \cup {"_"}

\* C8: for a file that is empty or holds only digits and punctuation, clean
\* returns the empty string, lemmaspacy and nlp take it without raising, and
\* the file written under its name is empty.
C8_EmptyDocument ==
    /\ (pc \in DocStages \cup {"aborted"} /\ OnlyDigitsAndPunctuation(dir[order[pos]])) =>
        /\ pc # "aborted"
        /\ pc \in {"lemma", "parse", "chunks", "append_doc"} => input_str = <<>>
        /\ pc = "append_doc" => list_element = <<>>
    /\ \A f \in DOMAIN dir : OnlyDigitsAndPunctuation(dir[f]) =>
        /\ f \in DOMAIN out => out[f] = <<>>
        /\ (pc = "done" /\ error = "none") => f \in DOMAIN out

C8_Witness ==
    /\ pc = "done"
    /\ error = "none"
    /\ \E f, g \in DOMAIN out :
          /\ dir[f].text = EmptyText
          /\ dir[g].text # EmptyText
          /\ OnlyDigitsAndPunctuation(dir[g])

\* C10: file_names and list_documents stay index-aligned: list_documents is
\* at most one shorter, as long when the loop has finished a document, its
\* i-th entry is the result of the file file_names[i], and the writer's i is
\* an index of both, also after the driver was aborted inside a document.
C10_IndexAligned ==
    /\ Len(list_documents) <= Len(file_names)
    /\ Len(file_names) <= Len(list_documents) + 1
    /\ \A k \in 1..Len(list_documents) :
          list_documents[k] = expected[file_names[k]].result
    /\ pc = "for" => Len(file_names) = Len(list_documents)
    /\ (pc \in WriterStages \cup {"done"} /\ error = "none") =>
          Len(file_names) = Len(list_documents)
    /\ pc \in {"w_open", "w_write"} =>
          wi \in DOMAIN list_documents /\ wi \in DOMAIN file_names

C10_Witness ==
    /\ pc = "w_open"
    /\ error # "none"
    /\ Len(file_names) = Len(list_documents) + 1
    /\ wi = Len(list_documents)

====
